---- MODULE Spec2Model ----
(***************************************************************************)
(* Model of builder.py: the fragment classes (TimeGrain, Slice, Measure,   *)
(* Ratio, Filter) with their to_sql renderings, and QueryBuilder with its  *)
(* mutators and compile().  Strings are real strings, built by the same    *)
(* concatenations and joins as the f-strings and str.join calls of the     *)
(* source.                                                                 *)
(***************************************************************************)
EXTENDS Integers, Sequences, FiniteSets, TLC

VARIABLES
    table,        \* QueryBuilder.table
    components,   \* QueryBuilder.components (dict with the five keys)
    ret,          \* outcome of the last call: a returned value or a raised exception
    frame,        \* the local part lists of the last compile() that ran to its end
    op,           \* the last call: its name and its argument
    pre,          \* table, components, ret and call name just before the last call
    fil,          \* a Filter object rendered on its own (Filter.to_sql)
    fil_out       \* outcome of fil.to_sql()

vars == <<table, components, ret, frame, op, pre, fil, fil_out>>

----------------------------------------------------------------------------
(* Bounds of the model *)

\* most entries held by slices, measures, ratios and filters together
MaxComponents == 3

----------------------------------------------------------------------------
(* Python values that the callers may pass where the code tests the type   *)
(* or the truth value of an argument.                                      *)

PyNone == [t |-> "None"]
PyStr(s) == [t |-> "str", s |-> s]
PyInt(n) == [t |-> "int", n |-> n]
PyList(xs) == [t |-> "list", xs |-> xs]
PyTuple(xs) == [t |-> "tuple", xs |-> xs]

\* bool(v)
Truthy(v) ==
    CASE v.t = "None" -> FALSE
      [] v.t = "str" -> v.s # ""
      [] v.t = "int" -> v.n # 0
      [] v.t = "list" -> v.xs # <<>>
      [] v.t = "tuple" -> v.xs # <<>>
      [] OTHER -> TRUE

Digits == <<"0", "1", "2", "3", "4", "5", "6", "7", "8", "9">>

\* str(n) for a non-negative int
RECURSIVE DecStr(_)
DecStr(n) ==
    IF n < 10 THEN Digits[n + 1]
    ELSE DecStr(n \div 10) \o Digits[(n % 10) + 1]

\* format(v) inside an f-string, for the value kinds above
PyFormat(v) ==
    CASE v.t = "None" -> "None"
      [] v.t = "str" -> v.s
      [] v.t = "int" -> DecStr(v.n)

\* sep.join(parts)
RECURSIVE Join(_, _)
Join(sep, parts) ==
    IF parts = <<>> THEN ""
    ELSE IF Len(parts) = 1 THEN parts[1]
    ELSE parts[1] \o sep \o Join(sep, Tail(parts))

Return(v) == [kind |-> "return", value |-> v]
Raise(exc, msg) == [kind |-> "raise", exc |-> exc, msg |-> msg]

----------------------------------------------------------------------------
(* The fragment classes *)

TimeGrain(column, grain, nice_name) ==
    [cls |-> "TimeGrain", column |-> column, grain |-> grain, nice_name |-> nice_name]

TimeGrain_to_sql(self) ==
    "date_trunc('" \o self.grain \o "', " \o self.column \o ") AS \"" \o self.nice_name \o "\""

\* nice_name is a Python value (None by default); the stored label is nice_name or column
Slice(column, nice_name) ==
    [cls |-> "Slice", column |-> column,
     nice_name |-> IF Truthy(nice_name) THEN nice_name.s ELSE column]

Slice_to_sql(self) ==
    self.column \o " AS \"" \o self.nice_name \o "\""

Measure(expression, nice_name) ==
    [cls |-> "Measure", expression |-> expression, nice_name |-> nice_name]

Measure_to_sql(self) ==
    self.expression \o " AS \"" \o self.nice_name \o "\""

Ratio(numerator, denominator, nice_name) ==
    [cls |-> "Ratio", numerator |-> numerator, denominator |-> denominator,
     nice_name |-> nice_name]

Ratio_to_sql(self) ==
    "(" \o self.numerator \o ") / NULLIF(" \o self.denominator \o ", 0) AS \"" \o self.nice_name \o "\""

Filter(column, value, filter_type, custom_expression) ==
    [cls |-> "Filter", column |-> column, value |-> value,
     filter_type |-> filter_type, custom_expression |-> custom_expression]

MsgNotList == "Value must be a list for 'list' filter type."
MsgNoExpression == "Custom expression must be provided for 'custom' filter type."
MsgUnsupported == "Unsupported filter type."

\* [f"'{v}'" for v in self.value]
FormattedValues(xs) == [i \in 1..Len(xs) |-> "'" \o PyFormat(xs[i]) \o "'"]

\* variant: the custom expression is tested against None only, not for emptiness
Filter_to_sql_NoneOnly(self) ==
    IF self.filter_type = "list" THEN
        IF self.value.t # "list" THEN Raise("ValueError", MsgNotList)
        ELSE Return(self.column \o " IN (" \o Join(", ", FormattedValues(self.value.xs)) \o ")\n")
    ELSE IF self.filter_type = "custom" THEN
        IF self.custom_expression = PyNone THEN Raise("ValueError", MsgNoExpression)
        ELSE Return(self.custom_expression.s)
    ELSE Raise("ValueError", MsgUnsupported)

Filter_to_sql(self) ==
    IF self.filter_type = "list" THEN
        IF self.value.t # "list" THEN Raise("ValueError", MsgNotList)
        ELSE Return(self.column \o " IN (" \o Join(", ", FormattedValues(self.value.xs)) \o ")\n")
    ELSE IF self.filter_type = "custom" THEN
        IF ~Truthy(self.custom_expression) THEN Raise("ValueError", MsgNoExpression)
        ELSE Return(self.custom_expression.s)
    ELSE Raise("ValueError", MsgUnsupported)

----------------------------------------------------------------------------
(* QueryBuilder *)

\* the value every mutator returns: the builder it was called on
Self == [t |-> "QueryBuilder", id |-> 1]

QueryBuilder_init(tbl) ==
    [table |-> tbl,
     components |-> [time_grain |-> PyNone, slices |-> <<>>, measures |-> <<>>,
                     ratios |-> <<>>, filters |-> <<>>]]

\* [component for component in xs if component.nice_name != nice_name]
RECURSIVE KeepOthers(_, _)
KeepOthers(xs, nice_name) ==
    IF xs = <<>> THEN <<>>
    ELSE IF xs[1].nice_name # nice_name THEN <<xs[1]>> \o KeepOthers(Tail(xs), nice_name)
    ELSE KeepOthers(Tail(xs), nice_name)

\* variant: the loop also runs over "filters", matching on the filter's column
remove_component_WithFilters(comps, nice_name) ==
    IF comps.time_grain # PyNone /\ comps.time_grain.nice_name = nice_name
    THEN [comps EXCEPT !.time_grain = PyNone]
    ELSE [comps EXCEPT !.slices = KeepOthers(comps.slices, nice_name),
                       !.measures = KeepOthers(comps.measures, nice_name),
                       !.ratios = KeepOthers(comps.ratios, nice_name),
                       !.filters = SelectSeq(comps.filters,
                                             LAMBDA f : f.column # nice_name)]

\* the components dict after remove_component(nice_name)
remove_component(comps, nice_name) ==
    IF comps.time_grain # PyNone /\ comps.time_grain.nice_name = nice_name
    THEN [comps EXCEPT !.time_grain = PyNone]
    ELSE [comps EXCEPT !.slices = KeepOthers(comps.slices, nice_name),
                       !.measures = KeepOthers(comps.measures, nice_name),
                       !.ratios = KeepOthers(comps.ratios, nice_name)]

set_time_grain(comps, time_grain) == [comps EXCEPT !.time_grain = time_grain]

add_slice(comps, slice) == [comps EXCEPT !.slices = Append(@, slice)]

\* variant: the else branch of add_measure replaces the list's last entry
add_measure_Replace(comps, measure) ==
    IF comps.measures = <<>>
    THEN [comps EXCEPT !.measures = Append(@, measure)]
    ELSE [comps EXCEPT !.measures = [@ EXCEPT ![Len(@)] = measure]]

add_measure(comps, measure) ==
    IF comps.measures = <<>>
    THEN [comps EXCEPT !.measures = Append(@, measure)]
    ELSE [comps EXCEPT !.measures = Append(@, measure)]

add_ratio(comps, ratio) == [comps EXCEPT !.ratios = Append(@, ratio)]

add_filter(comps, filter) == [comps EXCEPT !.filters = Append(@, filter)]

\* variant: compile() consumes the filters it rendered
compile_components_Drain(comps) == [comps EXCEPT !.filters = <<>>]

\* the components dict after compile(): compile assigns to no attribute
compile_components(comps) == comps

\* variant: measures are listed before slices
select_parts_MeasuresFirst(comps) ==
    <<TimeGrain_to_sql(comps.time_grain)>>
    \o [i \in 1..Len(comps.measures) |-> Measure_to_sql(comps.measures[i])]
    \o [i \in 1..Len(comps.slices) |-> Slice_to_sql(comps.slices[i])]
    \o [i \in 1..Len(comps.ratios) |-> Ratio_to_sql(comps.ratios[i])]

select_parts(comps) ==
    <<TimeGrain_to_sql(comps.time_grain)>>
    \o [i \in 1..Len(comps.slices) |-> Slice_to_sql(comps.slices[i])]
    \o [i \in 1..Len(comps.measures) |-> Measure_to_sql(comps.measures[i])]
    \o [i \in 1..Len(comps.ratios) |-> Ratio_to_sql(comps.ratios[i])]

\* indices of the filters whose to_sql raises
RaisingFilters(comps) ==
    {i \in 1..Len(comps.filters) : Filter_to_sql(comps.filters[i]).kind = "raise"}

FirstRaising(comps) ==
    CHOOSE i \in RaisingFilters(comps) : \A j \in RaisingFilters(comps) : i <= j

where_parts(comps) ==
    <<"TRUE">> \o [i \in 1..Len(comps.filters) |-> Filter_to_sql(comps.filters[i]).value]

\* variant: one position per SELECT column after the first
group_by_parts_AllColumns(comps) ==
    <<"1">> \o [k \in 1..(Len(comps.slices) + Len(comps.measures) + Len(comps.ratios))
                  |-> DecStr((k - 1) + 2)]

\* str(i + 2) for i in range(len(slices))
group_by_parts(comps) ==
    <<"1">> \o [k \in 1..Len(comps.slices) |-> DecStr((k - 1) + 2)]

order_by_parts(comps) ==
    <<"1 DESC">> \o [k \in 1..Len(comps.slices) |-> DecStr((k - 1) + 2)]

MsgNoneType == "'NoneType' object has no attribute 'to_sql'"

\* the exception of None.to_sql(): what the specification calls MissingTimeGrain
MissingTimeGrain == Raise("AttributeError", MsgNoneType)

\* the five clauses joined, once every part list is built
query(tbl, comps) ==
    Join("\n", <<
        "SELECT\n  " \o Join(",\n  ", select_parts(comps)),
        "FROM " \o tbl,
        "WHERE " \o Join(" AND\n  ", where_parts(comps)),
        "GROUP BY " \o Join(", ", group_by_parts(comps)),
        "ORDER BY " \o Join(", ", order_by_parts(comps)) >>)

\* variant: the WHERE parts are built before the SELECT parts
compile_WhereFirst(tbl, comps) ==
    IF RaisingFilters(comps) # {} THEN Filter_to_sql(comps.filters[FirstRaising(comps)])
    ELSE IF comps.time_grain = PyNone THEN MissingTimeGrain
    ELSE Return(query(tbl, comps))

\* variant: a filter that fails to render is left out of the WHERE list
compile_SkipFailing(tbl, comps) ==
    IF comps.time_grain = PyNone THEN MissingTimeGrain
    ELSE Return(query(tbl, [comps EXCEPT !.filters =
                    SelectSeq(@, LAMBDA f : Filter_to_sql(f).kind = "return")]))

\* the outcome of compile(): the query text, or the first exception on the way
compile(tbl, comps) ==
    IF comps.time_grain = PyNone THEN MissingTimeGrain
    ELSE IF RaisingFilters(comps) # {} THEN Filter_to_sql(comps.filters[FirstRaising(comps)])
    ELSE Return(query(tbl, comps))

\* no part list: compile() did not run, or raised before its return statement
NoFrame ==
    [select_parts |-> <<>>, where_parts |-> <<>>, group_by_parts |-> <<>>,
     order_by_parts |-> <<>>]

\* the part lists compile() holds when it reaches its return statement
compile_frame(tbl, comps) ==
    IF comps.time_grain # PyNone /\ RaisingFilters(comps) = {}
    THEN [select_parts |-> select_parts(comps), where_parts |-> where_parts(comps),
          group_by_parts |-> group_by_parts(comps), order_by_parts |-> order_by_parts(comps)]
    ELSE NoFrame

----------------------------------------------------------------------------
(* The arguments the callers pass *)

Tables == {"events", "a"}

Labels == {"a", "b", "z"}

TimeGrainInputs == {TimeGrain("ts", "day", "a"), TimeGrain("ts", "month", "b")}

SliceInputs == {Slice("a", PyNone), Slice("country", PyStr("b"))}

MeasureInputs == {Measure("count(*)", "a"), Measure("sum(x)", "b")}

RatioInputs == {Ratio("sum(x)", "count(*)", "a"), Ratio("sum(y)", "sum(x)", "b")}

FilterInputs ==
    {Filter("a", PyList(<<PyStr("1"), PyStr("2")>>), "list", PyNone),
     Filter("status", PyNone, "list", PyNone),
     Filter("status", PyNone, "custom", PyStr("b")),
     Filter("status", PyList(<<PyStr("ok")>>), "range", PyNone)}

\* the filters rendered on their own
FilterColumns == {"a", "status"}

FilterValues ==
    {PyNone, PyStr("ok"), PyList(<<>>), PyList(<<PyStr("ok")>>),
     PyList(<<PyStr("1"), PyStr("2")>>), PyList(<<PyInt(1)>>),
     PyList(<<PyStr("ok"), PyInt(27)>>), PyTuple(<<PyStr("ok")>>)}

FilterTypes == {"list", "custom", "range"}

CustomExpressions == {PyNone, PyStr(""), PyStr("b")}

FilterUniverse ==
    {Filter(c, v, ft, ce) : c \in FilterColumns, v \in FilterValues,
                            ft \in FilterTypes, ce \in CustomExpressions}

NotRendered == [kind |-> "none"]

----------------------------------------------------------------------------
(* The builder as a state machine: one action per public method *)

Size(comps) ==
    Len(comps.slices) + Len(comps.measures) + Len(comps.ratios) + Len(comps.filters)

Snapshot == [table |-> table, components |-> components, ret |-> ret, op |-> op.name]

Init ==
    /\ \E tbl \in Tables :
          /\ table = QueryBuilder_init(tbl).table
          /\ components = QueryBuilder_init(tbl).components
          /\ op = [name |-> "__init__", arg |-> PyStr(tbl)]
    /\ ret = Return(PyNone)
    /\ frame = NoFrame
    /\ pre = [table |-> table, components |-> components, ret |-> ret, op |-> "__init__"]
    /\ fil = PyNone
    /\ fil_out = NotRendered

\* the bookkeeping of a mutator call: every mutator ends with "return self"
ReturnsSelf(name, arg) ==
    /\ pre' = Snapshot
    /\ op' = [name |-> name, arg |-> arg]
    /\ ret' = Return(Self)
    /\ frame' = NoFrame
    /\ UNCHANGED <<fil, fil_out>>

RemoveComponent ==
    \E nice_name \in Labels :
        /\ components' = remove_component(components, nice_name)
        /\ table' = table
        /\ ReturnsSelf("remove_component", PyStr(nice_name))

SetTableName ==
    \E new_table_name \in Tables :
        /\ table' = new_table_name
        /\ components' = components
        /\ ReturnsSelf("set_table_name", PyStr(new_table_name))

SetTimeGrain ==
    \E time_grain \in TimeGrainInputs :
        /\ components' = set_time_grain(components, time_grain)
        /\ table' = table
        /\ ReturnsSelf("set_time_grain", time_grain)

AddSlice ==
    /\ Size(components) < MaxComponents
    /\ \E slice \in SliceInputs :
          /\ components' = add_slice(components, slice)
          /\ table' = table
          /\ ReturnsSelf("add_slice", slice)

AddMeasure ==
    /\ Size(components) < MaxComponents
    /\ \E measure \in MeasureInputs :
          /\ components' = add_measure(components, measure)
          /\ table' = table
          /\ ReturnsSelf("add_measure", measure)

AddRatio ==
    /\ Size(components) < MaxComponents
    /\ \E ratio \in RatioInputs :
          /\ components' = add_ratio(components, ratio)
          /\ table' = table
          /\ ReturnsSelf("add_ratio", ratio)

AddFilter ==
    /\ Size(components) < MaxComponents
    /\ \E filter \in FilterInputs :
          /\ components' = add_filter(components, filter)
          /\ table' = table
          /\ ReturnsSelf("add_filter", filter)

Compile ==
    /\ pre' = Snapshot
    /\ op' = [name |-> "compile", arg |-> PyNone]
    /\ table' = table
    /\ components' = compile_components(components)
    /\ ret' = compile(table, components)
    /\ frame' = compile_frame(table, components)
    /\ UNCHANGED <<fil, fil_out>>

Next ==
    \/ RemoveComponent
    \/ SetTableName
    \/ SetTimeGrain
    \/ AddSlice
    \/ AddMeasure
    \/ AddRatio
    \/ AddFilter
    \/ Compile

Spec == Init /\ [][Next]_vars

----------------------------------------------------------------------------
(* Filter.to_sql on its own: a filter is constructed, then rendered *)

InitFilter ==
    /\ table = QueryBuilder_init("events").table
    /\ components = QueryBuilder_init("events").components
    /\ op = [name |-> "__init__", arg |-> PyStr("events")]
    /\ ret = Return(PyNone)
    /\ frame = NoFrame
    /\ pre = [table |-> table, components |-> components, ret |-> ret, op |-> "__init__"]
    /\ fil \in FilterUniverse
    /\ fil_out = NotRendered

NewFilter ==
    /\ fil_out # NotRendered
    /\ fil' \in FilterUniverse
    /\ fil_out' = NotRendered
    /\ UNCHANGED <<table, components, ret, frame, op, pre>>

RenderFilter ==
    /\ fil_out = NotRendered
    /\ fil_out' = Filter_to_sql(fil)
    /\ UNCHANGED <<fil, table, components, ret, frame, op, pre>>

NextFilter ==
    \/ NewFilter
    \/ RenderFilter

SpecFilter == InitFilter /\ [][NextFilter]_vars

----------------------------------------------------------------------------
(* Vocabulary of the properties *)

\* xs with exactly the entries labelled L removed, the others kept in order
Without(xs, L) == SelectSeq(xs, LAMBDA c : c.nice_name # L)

HasLabel(xs, L) == \E i \in 1..Len(xs) : xs[i].nice_name = L

GrainHasLabel(comps, L) ==
    comps.time_grain # PyNone /\ comps.time_grain.nice_name = L

NoMatch(comps, L) ==
    /\ ~GrainHasLabel(comps, L)
    /\ ~HasLabel(comps.slices, L)
    /\ ~HasLabel(comps.measures, L)
    /\ ~HasLabel(comps.ratios, L)

\* the positions 1, 2, ..., n written in decimal
Positions(n) == [k \in 1..n |-> ToString(k)]

\* sep.join(parts), folded from the right end
RECURSIVE JoinR(_, _)
JoinR(sep, parts) ==
    IF parts = <<>> THEN ""
    ELSE IF Len(parts) = 1 THEN parts[1]
    ELSE JoinR(sep, SubSeq(parts, 1, Len(parts) - 1)) \o sep \o parts[Len(parts)]

Called(name) == op.name = name

----------------------------------------------------------------------------
(* C1 *)

\* C1: after remove_component(L) the time grain is absent if its label was
\* L, and independently slices, measures and ratios are the prior sequences
\* without the entries labelled L; a slice labelled L that existed before is
\* gone and the next compile() numbers the remaining slices 2..N+1, also
\* when the time grain is labelled L too.
C1_RemoveIndependently ==
    Called("remove_component") =>
        LET L == op.arg.s
            old == pre.components
        IN  /\ components.time_grain =
                  (IF GrainHasLabel(old, L) THEN PyNone ELSE old.time_grain)
            /\ components.slices = Without(old.slices, L)
            /\ components.measures = Without(old.measures, L)
            /\ components.ratios = Without(old.ratios, L)
            /\ (HasLabel(old.slices, L) =>
                  /\ ~HasLabel(components.slices, L)
                  /\ group_by_parts(components)
                        = Positions(1 + Len(Without(old.slices, L))))

(* C3 *)

\* C3: remove_component(L) is idempotent (applied again right after itself
\* it changes nothing), and when neither the time grain nor any slice,
\* measure or ratio is labelled L it changes nothing and raises nothing.
C3_RemoveIdempotent ==
    Called("remove_component") =>
        /\ remove_component(components, op.arg.s) = components
        /\ (NoMatch(pre.components, op.arg.s) =>
              /\ components = pre.components
              /\ table = pre.table
              /\ ret = Return(Self))

(* C2 *)

\* C2: compile() with no time grain raises MissingTimeGrain, returns no
\* string and leaves table and components as they were, whatever slices,
\* measures, ratios and filters hold.
C2_MissingTimeGrain ==
    (Called("compile") /\ pre.components.time_grain = PyNone) =>
        /\ ret = MissingTimeGrain
        /\ ret.kind = "raise"
        /\ frame = NoFrame
        /\ table = pre.table
        /\ components = pre.components

\* compile() ran right after a removal, with no time grain, with slices and
\* with a filter that cannot render
C2_Witness ==
    /\ Called("compile")
    /\ pre.op = "remove_component"
    /\ components.time_grain = PyNone
    /\ components.slices # <<>>
    /\ RaisingFilters(components) # {}
    /\ ret = MissingTimeGrain

(* C4 *)

\* C4: compile() changes neither the table nor the components, and a
\* compile() that directly follows a compile() has the same outcome.
C4_CompilePure ==
    Called("compile") =>
        /\ table = pre.table
        /\ components = pre.components
        /\ (pre.op = "compile" => ret = pre.ret)

\* two compile() calls in a row over a builder with filters, the second
\* returning a query
C4_Witness ==
    /\ Called("compile")
    /\ pre.op = "compile"
    /\ components.filters # <<>>
    /\ ret.kind = "return"
    /\ pre.ret.kind = "return"

(* C5 *)

\* C5: the GROUP BY list of a compile() that returns is 1, 2, ..., 1+N and
\* its ORDER BY list is "1 DESC", 2, ..., 1+N, N the number of slices,
\* whatever the number of measures, ratios and filters.
C5_PositionLists ==
    (Called("compile") /\ ret.kind = "return") =>
        LET N == Len(components.slices) IN
        /\ Len(frame.group_by_parts) = 1 + N
        /\ Len(frame.order_by_parts) = 1 + N
        /\ frame.group_by_parts = Positions(1 + N)
        /\ frame.order_by_parts = [Positions(1 + N) EXCEPT ![1] = "1 DESC"]
        /\ (N = 0 => frame.group_by_parts = <<"1">> /\ frame.order_by_parts = <<"1 DESC">>)

\* a compile() that returned, over slices and at least one measure or ratio
C5_Witness ==
    /\ Called("compile")
    /\ ret.kind = "return"
    /\ Len(components.slices) >= 1
    /\ Len(components.measures) + Len(components.ratios) >= 1
    /\ frame.group_by_parts = <<"1">> \o [k \in 1..Len(components.slices) |-> ToString(k + 1)]

(* C6 *)

\* C6: the SELECT list of a compile() that returns is the time grain, then
\* the slices, then the measures, then the ratios, each in insertion order;
\* it has 1 + |slices| + |measures| + |ratios| items, and item k, for
\* 2 <= k <= 1 + |slices|, is the slice GROUP BY / ORDER BY position k names.
C6_SelectOrder ==
    (Called("compile") /\ ret.kind = "return") =>
        LET S == Len(components.slices)
            M == Len(components.measures)
            R == Len(components.ratios)
            sp == frame.select_parts
        IN  /\ Len(sp) = 1 + S + M + R
            /\ sp[1] = TimeGrain_to_sql(components.time_grain)
            /\ \A k \in 1..S :
                  /\ sp[1 + k] = Slice_to_sql(components.slices[k])
                  /\ frame.group_by_parts[1 + k] = ToString(1 + k)
                  /\ frame.order_by_parts[1 + k] = ToString(1 + k)
            /\ \A k \in 1..M : sp[1 + S + k] = Measure_to_sql(components.measures[k])
            /\ \A k \in 1..R : sp[1 + S + M + k] = Ratio_to_sql(components.ratios[k])

\* a compile() that returned over a slice, a measure and a ratio, the slice
\* added last
C6_Witness ==
    /\ Called("compile")
    /\ ret.kind = "return"
    /\ pre.op = "add_slice"
    /\ Len(components.slices) = 1
    /\ Len(components.measures) = 1
    /\ Len(components.ratios) = 1
    /\ frame.select_parts[2] = Slice_to_sql(components.slices[1])

(* C7 *)

\* the error kinds of Filter.to_sql, by the message that tells them apart
InvalidFilterValue == Raise("ValueError", MsgNotList)
MissingExpression == Raise("ValueError", MsgNoExpression)
UnsupportedFilterKind == Raise("ValueError", MsgUnsupported)

\* v is a sequence (list or tuple) of strings
IsStringSequence(v) ==
    /\ v.t \in {"list", "tuple"}
    /\ \A i \in 1..Len(v.xs) : v.xs[i].t = "str"

\* column IN ('v1', 'v2', ...) and a newline
InListText(column, xs) ==
    column \o " IN ("
           \o JoinR(", ", [i \in 1..Len(xs) |->
                   "'" \o (IF xs[i].t = "int" THEN ToString(xs[i].n) ELSE xs[i].s) \o "'"])
           \o ")\n"

\* C7 as stated: Filter.to_sql raises InvalidFilterValue exactly when
\* kind=list and value is not a sequence of strings (a missing value and a
\* sequence holding a non-string element included), MissingExpression
\* exactly when kind=custom and the expression is empty or absent,
\* UnsupportedFilterKind exactly for another kind; otherwise it returns the
\* IN-list text or the custom expression verbatim.
C7_FilterErrorsAsStated ==
    fil_out # NotRendered =>
        fil_out =
            (IF fil.filter_type = "list" THEN
                 (IF ~IsStringSequence(fil.value) THEN InvalidFilterValue
                  ELSE Return(InListText(fil.column, fil.value.xs)))
             ELSE IF fil.filter_type = "custom" THEN
                 (IF fil.custom_expression \in {PyNone, PyStr("")} THEN MissingExpression
                  ELSE Return(fil.custom_expression.s))
             ELSE UnsupportedFilterKind)

\* C7 amended: as stated, but InvalidFilterValue is raised exactly when
\* kind=list and value is not a list; a list renders whatever its elements
\* are, a non-string element by its str() text.
C7_FilterErrors ==
    fil_out # NotRendered =>
        fil_out =
            (IF fil.filter_type = "list" THEN
                 (IF fil.value.t # "list" THEN InvalidFilterValue
                  ELSE Return(InListText(fil.column, fil.value.xs)))
             ELSE IF fil.filter_type = "custom" THEN
                 (IF fil.custom_expression \in {PyNone, PyStr("")} THEN MissingExpression
                  ELSE Return(fil.custom_expression.s))
             ELSE UnsupportedFilterKind)

\* a list filter whose list holds a non-string element was rendered
C7_Witness ==
    /\ fil_out # NotRendered
    /\ fil.filter_type = "list"
    /\ fil.value = PyList(<<PyStr("ok"), PyInt(27)>>)
    /\ fil_out = Return(fil.column \o " IN ('ok', '27')\n")

(* C8 *)

\* C8: compile() returns the whole five-clause text or raises and yields
\* nothing; with a time grain it returns iff every filter renders, and
\* otherwise raises the error of the first filter that fails, unchanged,
\* leaving table and components as they were; add_filter accepts any filter.
C8_AllOrNothing ==
    /\ Called("compile") =>
          LET fs == components.filters
              Renders(i) == Filter_to_sql(fs[i]).kind = "return"
          IN  /\ ret.kind \in {"return", "raise"}
              /\ table = pre.table
              /\ components = pre.components
              /\ (ret.kind = "return" =>
                    ret.value = JoinR("\n", <<
                        "SELECT\n  " \o JoinR(",\n  ", frame.select_parts),
                        "FROM " \o table,
                        "WHERE " \o JoinR(" AND\n  ", frame.where_parts),
                        "GROUP BY " \o JoinR(", ", frame.group_by_parts),
                        "ORDER BY " \o JoinR(", ", frame.order_by_parts) >>))
              /\ (ret.kind = "raise" => frame = NoFrame)
              /\ (components.time_grain # PyNone =>
                    /\ (ret.kind = "return" <=> \A i \in 1..Len(fs) : Renders(i))
                    /\ (ret.kind = "raise" =>
                          \E i \in 1..Len(fs) :
                              /\ ~Renders(i)
                              /\ \A j \in 1..(i - 1) : Renders(j)
                              /\ ret = Filter_to_sql(fs[i])))
    /\ Called("add_filter") =>
          /\ ret = Return(Self)
          /\ components.filters = Append(pre.components.filters, op.arg)

\* compile() with a time grain, a filter that renders and then one that
\* does not: the second one's error is raised
C8_Witness ==
    /\ Called("compile")
    /\ components.time_grain # PyNone
    /\ Len(components.filters) = 2
    /\ Filter_to_sql(components.filters[1]).kind = "return"
    /\ Filter_to_sql(components.filters[2]).kind = "raise"
    /\ ret = Filter_to_sql(components.filters[2])

(* C9 *)

\* C9: remove_component(L) changes neither the filters nor the table, also
\* when L is a filter's column or custom expression, so the WHERE list of
\* the next compile() is what it was.
C9_RemoveKeepsFilters ==
    Called("remove_component") =>
        /\ components.filters = pre.components.filters
        /\ table = pre.table
        /\ \A i \in 1..Len(components.filters) :
              Filter_to_sql(components.filters[i])
                  = Filter_to_sql(pre.components.filters[i])

\* a removal that took a slice away while a filter's column and the table
\* both carry the removed label
C9_Witness ==
    /\ Called("remove_component")
    /\ Len(components.slices) < Len(pre.components.slices)
    /\ \E i \in 1..Len(components.filters) : components.filters[i].column = op.arg.s
    /\ table = op.arg.s

(* C10 *)

AddedTo(key) ==
    /\ components[key] = Append(pre.components[key], op.arg)
    /\ \A k \in {"time_grain", "slices", "measures", "ratios", "filters"} \ {key} :
          components[k] = pre.components[k]
    /\ table = pre.table
    /\ ret = Return(Self)

\* C10: add_slice, add_measure, add_ratio and add_filter each append their
\* argument at the end of their own list, whatever the list holds, leave
\* the table, the time grain and the other lists alone and return the
\* builder.
C10_AddAppends ==
    /\ Called("add_slice") => AddedTo("slices")
    /\ Called("add_measure") => AddedTo("measures")
    /\ Called("add_ratio") => AddedTo("ratios")
    /\ Called("add_filter") => AddedTo("filters")

\* add_measure of a measure the list already holds: the list holds it twice
C10_Witness ==
    /\ Called("add_measure")
    /\ Len(pre.components.measures) = 1
    /\ pre.components.measures[1] = op.arg
    /\ components.measures = <<op.arg, op.arg>>

====
